---- MODULE Spec2Model ----
(***************************************************************************)
(* Model of the availability-check pipeline of cmd/pbackend/statuser.go:   *)
(* the kafka consumer calling processMessage (Router), the three provider  *)
(* workers checkSourceAvailabilityAWS / Azure / GCP, the batching sender   *)
(* sendResults, and the shutdown sequence at the end of statuser(); and of *)
(* the job handler of internal/jobs/pubkey_upload_aws_job.go.              *)
(***************************************************************************)
EXTENDS Integers, Sequences, FiniteSets, TLC

\* ------------------------------------------------------------------ bounds
\* Number of inbound messages the consumer delivers in one behaviour.
MaxRequests == 2

\* Number of inbound messages in the specifications with a single provider.
MaxSenderRequests == 3

\* Capacity of chAws, chAzure, chGcp and chSend.  The program sets 32
\* (statuser.go:41); the model scales it down so that full queues are reached.
ChannelBuffer == 1

\* batchSize argument of sendResults.  statuser() passes 1024
\* (statuser.go:347); the model scales it down so that full-buffer flushes
\* are reached.
BatchSize == 2

\* Capacity of the queues in the specification of the queue order, where two
\* items have to be on a queue at once, and its number of inbound messages.
FifoBuffer == 2

MaxFifoRequests == 3

\* Number of zero values the sender may receive from the closed chSend.
MaxZero == 1

\* Number of runs of the pubkey upload job in one behaviour; they overlap.
MaxJobs == 2

\* ------------------------------------------------------------------ values
ProviderTypes == {"AWS", "Azure", "GCP", "Noop", "Unknown"}

\* One inbound kafka message, described by what each call made by
\* processMessage returns for it.
Messages ==
  [decode : BOOLEAN, client : BOOLEAN,
   auth : {"ok", "notfound", "error"}, ptype : ProviderTypes]

\* kafka.SourceResult.  id is the source the result is about (ResourceID),
\* n tells apart the results a worker sends for the same source.
NoResult == [id |-> 0, n |-> 0, status |-> "none", err |-> "none"]

\* The zero kafka.SourceResult a receive on the closed chSend returns.
ZeroResult == [id |-> 0, n |-> 0, status |-> "zero", err |-> "none"]

NoItem == [id |-> 0, target |-> "none"]

\* PubkeyUploadAWSTaskArgs, as far as the handler looks at it.
JobArgs ==
  [pubkey : {1, 2}, source : {"s1"}, region : {"r1"}, reservation : {1, 2}]

\* A run of the pubkey upload job that has not started.  pc is where the run
\* is ("queued", "check", "import", "create", "finish", "done"); existed tells whether the key had a resource record when the run made
\* its presence check; imported, importOk and created record what the run
\* has done; err is the error HandlePubkeyUploadAWS returns.
NoRun ==
  [pc |-> "queued", args |-> [pubkey |-> 0, source |-> "none",
                              region |-> "none", reservation |-> 0],
   decoded |-> FALSE, existed |-> FALSE, imported |-> FALSE,
   importOk |-> FALSE, created |-> FALSE, err |-> "none"]

VARIABLES
  nextId,        \* id of the next inbound message
  rPc,           \* consumer goroutine: "idle", "send" (blocked in chX <- s), "exited"
  rItem,         \* the SourceInfo processMessage is sending
  routed,        \* history: id -> queue the Router chose for it
  invalidReqs,   \* metrics.IncTotalInvalidAvailabilityCheckReqs counter
  received,      \* history: the inbound messages, by id
  chAws, chAzure, chGcp, chSend,
  chanCap,       \* cap() of the four channels, fixed when they are made
  closed,        \* which channels have been closed
  wAws, wAzure, wGcp,   \* worker goroutines: [pc, sr]
  produced,      \* history: results in the order they were put on chSend
  messages,      \* sendResults: the batch buffer
  bPc,           \* sendResults: "select" or "done"
  tickerOn,      \* sendResults: ticker not stopped
  sent,          \* history: the calls of kafka.Send
  dropped,       \* history: results whose GenericMessage failed
  zeroRecv,      \* number of zero values received from the closed chSend
  cPc,           \* statuser(): position of the main goroutine
  signalNotify, consumerNotify,   \* closed?
  ctxCancelled,  \* consumerCancelFunc() was called
  receiverWG, processingWG, senderWG,
  atShutdown,    \* history: what was enqueued when the shutdown started
  panic,         \* "none", or the reason the process panicked
  jResources,    \* pubkey job: the pubkey resource records of the database
  jImports,      \* pubkey job, history: the calls of ec2Client.ImportPubkey
  jRuns,         \* pubkey job: the runs of HandlePubkeyUploadAWS, by number
  jFinished      \* pubkey job, history: the calls of finishJob

statuserVars ==
  <<nextId, rPc, rItem, routed, invalidReqs, received, chAws, chAzure, chGcp,
    chSend, chanCap, closed, wAws, wAzure, wGcp, produced, messages, bPc, tickerOn, sent,
    dropped, zeroRecv, cPc, signalNotify, consumerNotify, ctxCancelled,
    receiverWG, processingWG, senderWG, atShutdown, panic>>

jobVars == <<jResources, jImports, jRuns, jFinished>>

vars == <<statuserVars, jobVars>>

routerVars == <<nextId, rPc, rItem, routed, invalidReqs, received>>
providerChans == <<chAws, chAzure, chGcp>>
workerVars == <<wAws, wAzure, wGcp>>
senderVars == <<messages, bPc, tickerOn, sent, dropped, zeroRecv>>
coordVars == <<cPc, signalNotify, ctxCancelled, atShutdown>>
wgVars == <<receiverWG, processingWG, senderWG>>

Range(s) == {s[i] : i \in 1..Len(s)}

\* ------------------------------------------------------------ channel ops
\* A send on a buffered channel proceeds only while the buffer has room.
CanSendAlways(ch) == TRUE

CanSend(ch) == Len(ch) < chanCap

\* `ch <- x`: the item goes behind the items already on the channel.
ChanSendFront(ch, x) == <<x>> \o ch

ChanSend(ch, x) == Append(ch, x)

\* `for s := range ch` leaves the loop when ch is closed and drained.
RangeExitsOnCancel(ch, isClosed) == (isClosed /\ ch = <<>>) \/ ctxCancelled

RangeDone(ch, isClosed) == isClosed /\ ch = <<>>

Running == panic = "none"

\* The state after the channels are made with that capacity and the goroutines
\* are started.
InitWith(capacity) ==
  /\ chanCap = capacity
  /\ nextId = 1
  /\ rPc = "idle"
  /\ rItem = NoItem
  /\ routed = <<>>
  /\ invalidReqs = 0
  /\ received = <<>>
  /\ chAws = <<>> /\ chAzure = <<>> /\ chGcp = <<>> /\ chSend = <<>>
  /\ closed = [c \in {"chAws", "chAzure", "chGcp", "chSend"} |-> FALSE]
  /\ wAws = [pc |-> "recv", sr |-> NoResult]
  /\ wAzure = [pc |-> "recv", sr |-> NoResult]
  /\ wGcp = [pc |-> "recv", sr |-> NoResult, nilClient |-> FALSE]
  /\ produced = <<>>
  /\ messages = <<>>
  /\ bPc = "select"
  /\ tickerOn = TRUE
  /\ sent = <<>>
  /\ dropped = <<>>
  /\ zeroRecv = 0
  /\ cPc = "select"
  /\ signalNotify = FALSE
  /\ consumerNotify = FALSE
  /\ ctxCancelled = FALSE
  /\ receiverWG = 1
  /\ processingWG = 3
  /\ senderWG = 1
  /\ atShutdown = [reqs |-> {}, results |-> {}, taken |-> FALSE]
  /\ panic = "none"
  /\ jResources = <<>>
  /\ jImports = <<>>
  /\ jRuns = [r \in 1..MaxJobs |-> NoRun]
  /\ jFinished = <<>>

Init == InitWith(ChannelBuffer)

\* ----------------------------------------------------------------- Router
\* processMessageTarget with the Azure case sending to chAws.
processMessageTargetCopyPaste(m) ==
  IF ~m.decode THEN "none"
  ELSE IF ~m.client THEN "none"
  ELSE IF m.auth # "ok" THEN "none"
  ELSE CASE m.ptype = "AWS" -> "chAws"
         [] m.ptype = "Azure" -> "chAws"
         [] m.ptype = "GCP" -> "chGcp"
         [] OTHER -> "none"

\* processMessageInvalid with the metric counted after the NotFound return.
processMessageInvalidAfterNotFound(m) ==
  m.decode /\ m.client /\ m.auth = "error"

\* The queue processMessage sends the source to, or "none" when it returns
\* without sending.
processMessageTarget(m) ==
  IF ~m.decode THEN "none"
  ELSE IF ~m.client THEN "none"
  ELSE IF m.auth # "ok" THEN "none"
  ELSE CASE m.ptype = "AWS" -> "chAws"
         [] m.ptype = "Azure" -> "chAzure"
         [] m.ptype = "GCP" -> "chGcp"
         [] OTHER -> "none"

\* Whether processMessage counts the message as an invalid request.
processMessageInvalid(m) == m.decode /\ m.client /\ m.auth # "ok"

\* processMessage on message m, up to its channel send.
Route(m) ==
  /\ Running
  /\ rPc = "idle"
  /\ ~ctxCancelled
  /\ nextId' = nextId + 1
  /\ invalidReqs' = invalidReqs + (IF processMessageInvalid(m) THEN 1 ELSE 0)
  /\ routed' = Append(routed, processMessageTarget(m))
  /\ IF processMessageTarget(m) = "none"
       THEN /\ rPc' = "idle"
            /\ rItem' = NoItem
       ELSE /\ rPc' = "send"
            /\ rItem' = [id |-> nextId, target |-> processMessageTarget(m)]
  /\ UNCHANGED <<providerChans, chSend, closed, workerVars, produced,
                 senderVars, coordVars, consumerNotify, wgVars, panic>>
  /\ UNCHANGED <<chanCap, jobVars>>

\* kafka.Consume hands one message to processMessage, which runs up to its
\* channel send.
Consume(m) == Route(m) /\ UNCHANGED received

\* The same step, with the history variable received recording the message.
ConsumeObserved(m) == Route(m) /\ received' = Append(received, m)

\* The send `chX <- s` of processMessage completes.
RouterSend ==
  /\ Running
  /\ rPc = "send"
  /\ IF closed[rItem.target]
       THEN /\ panic' = "send on closed channel"
            /\ UNCHANGED <<providerChans, rPc, rItem>>
       ELSE /\ panic' = panic
            /\ rPc' = "idle"
            /\ rItem' = NoItem
            /\ CASE rItem.target = "chAws" ->
                      /\ CanSend(chAws)
                      /\ chAws' = ChanSend(chAws, rItem.id)
                      /\ UNCHANGED <<chAzure, chGcp>>
                 [] rItem.target = "chAzure" ->
                      /\ CanSend(chAzure)
                      /\ chAzure' = ChanSend(chAzure, rItem.id)
                      /\ UNCHANGED <<chAws, chGcp>>
                 [] rItem.target = "chGcp" ->
                      /\ CanSend(chGcp)
                      /\ chGcp' = ChanSend(chGcp, rItem.id)
                      /\ UNCHANGED <<chAws, chAzure>>
  /\ UNCHANGED <<nextId, routed, invalidReqs, received, chSend, closed,
                 workerVars, produced, senderVars, coordVars, consumerNotify,
                 wgVars>>
  /\ UNCHANGED <<chanCap, jobVars>>

\* kafka.Consume returns because its context was cancelled.
ConsumerExitCancelled ==
  /\ Running
  /\ rPc = "idle"
  /\ ctxCancelled
  /\ rPc' = "exited"
  /\ consumerNotify' = TRUE
  /\ receiverWG' = receiverWG - 1
  /\ UNCHANGED <<nextId, rItem, routed, invalidReqs, received, providerChans, chSend,
                 closed, workerVars, produced, senderVars, coordVars,
                 processingWG, senderWG, panic>>
  /\ UNCHANGED <<chanCap, jobVars>>

\* kafka.Consume returns although nobody cancelled it.
ConsumerExitUnexpected ==
  /\ Running
  /\ rPc = "idle"
  /\ ~ctxCancelled
  /\ rPc' = "exited"
  /\ consumerNotify' = TRUE
  /\ receiverWG' = receiverWG - 1
  /\ UNCHANGED <<nextId, rItem, routed, invalidReqs, received, providerChans, chSend,
                 closed, workerVars, produced, senderVars, coordVars,
                 processingWG, senderWG, panic>>
  /\ UNCHANGED <<chanCap, jobVars>>

\* ---------------------------------------------------------------- Workers
\* kafka.SourceResult built at the top of a worker iteration.
NewSourceResult(id) == [id |-> id, n |-> 1, status |-> "none", err |-> "none"]

\* The send `chSend <- sr` of a worker: blocks while chSend is full, panics
\* when chSend is closed.
SendResult(sr) ==
  IF closed["chSend"]
    THEN /\ panic' = "send on closed channel"
         /\ UNCHANGED <<chSend, produced>>
    ELSE /\ CanSend(chSend)
         /\ chSend' = ChanSend(chSend, sr)
         /\ produced' = Append(produced, sr)
         /\ panic' = panic

\* checkSourceAvailabilityAWS: receive s, call GetEC2Client.
AwsRecv(clientErr) ==
  /\ Running
  /\ wAws.pc = "recv"
  /\ chAws # <<>>
  /\ chAws' = Tail(chAws)
  /\ wAws' = [pc |-> "send",
              sr |-> IF clientErr
                       THEN [NewSourceResult(Head(chAws)) EXCEPT
                               !.status = "Unavailable", !.err = "client"]
                       ELSE [NewSourceResult(Head(chAws)) EXCEPT
                               !.status = "Available"]]
  /\ UNCHANGED <<routerVars, chAzure, chGcp, chSend, closed, wAzure, wGcp,
                 produced, senderVars, coordVars, consumerNotify, wgVars,
                 panic>>
  /\ UNCHANGED <<chanCap, jobVars>>

\* checkSourceAvailabilityAWS: receive s; the call GetEC2Client does not
\* return.
AwsRecvHangs ==
  /\ Running
  /\ wAws.pc = "recv"
  /\ chAws # <<>>
  /\ chAws' = Tail(chAws)
  /\ wAws' = [pc |-> "probe", sr |-> NewSourceResult(Head(chAws))]
  /\ UNCHANGED <<routerVars, chAzure, chGcp, chSend, closed, wAzure, wGcp,
                 produced, senderVars, coordVars, consumerNotify, wgVars,
                 panic>>
  /\ UNCHANGED <<chanCap, jobVars>>

\* checkSourceAvailabilityAWS: chSend <- sr, then the next iteration.
AwsSend ==
  /\ Running
  /\ wAws.pc = "send"
  /\ SendResult(wAws.sr)
  /\ wAws' = IF closed["chSend"] THEN wAws
             ELSE [pc |-> "recv", sr |-> NoResult]
  /\ UNCHANGED <<routerVars, providerChans, closed, wAzure, wGcp, senderVars,
                 coordVars, consumerNotify, wgVars>>
  /\ UNCHANGED <<chanCap, jobVars>>

\* checkSourceAvailabilityAWS: the range loop ends, processingWG.Done().
AwsExit ==
  /\ Running
  /\ wAws.pc = "recv"
  /\ RangeDone(chAws, closed["chAws"])
  /\ wAws' = [wAws EXCEPT !.pc = "done"]
  /\ processingWG' = processingWG - 1
  /\ UNCHANGED <<routerVars, providerChans, chSend, closed, wAzure, wGcp,
                 produced, senderVars, coordVars, consumerNotify, receiverWG,
                 senderWG, panic>>
  /\ UNCHANGED <<chanCap, jobVars>>

\* checkSourceAvailabilityAzure: receive s; the status is always available.
AzureRecv ==
  /\ Running
  /\ wAzure.pc = "recv"
  /\ chAzure # <<>>
  /\ chAzure' = Tail(chAzure)
  /\ wAzure' = [pc |-> "send",
                sr |-> [NewSourceResult(Head(chAzure)) EXCEPT
                          !.status = "Available"]]
  /\ UNCHANGED <<routerVars, chAws, chGcp, chSend, closed, wAws, wGcp,
                 produced, senderVars, coordVars, consumerNotify, wgVars,
                 panic>>
  /\ UNCHANGED <<chanCap, jobVars>>

\* checkSourceAvailabilityAzure: chSend <- sr, then the next iteration.
AzureSend ==
  /\ Running
  /\ wAzure.pc = "send"
  /\ SendResult(wAzure.sr)
  /\ wAzure' = IF closed["chSend"] THEN wAzure
               ELSE [pc |-> "recv", sr |-> NoResult]
  /\ UNCHANGED <<routerVars, providerChans, closed, wAws, wGcp, senderVars,
                 coordVars, consumerNotify, wgVars>>
  /\ UNCHANGED <<chanCap, jobVars>>

\* checkSourceAvailabilityAzure: the range loop ends, processingWG.Done().
AzureExit ==
  /\ Running
  /\ wAzure.pc = "recv"
  /\ RangeDone(chAzure, closed["chAzure"])
  /\ wAzure' = [wAzure EXCEPT !.pc = "done"]
  /\ processingWG' = processingWG - 1
  /\ UNCHANGED <<routerVars, providerChans, chSend, closed, wAws, wGcp,
                 produced, senderVars, coordVars, consumerNotify, receiverWG,
                 senderWG, panic>>
  /\ UNCHANGED <<chanCap, jobVars>>

\* checkSourceAvailabilityGCP: receive s, call GetGCPClient.  When the call
\* fails the worker has a first result to send (line 190) and goes on to
\* line 192 all the same.
GcpRecv(clientErr) ==
  /\ Running
  /\ wGcp.pc = "recv"
  /\ chGcp # <<>>
  /\ chGcp' = Tail(chGcp)
  /\ wGcp' = IF clientErr
               THEN [pc |-> "sendClientErr",
                     sr |-> [NewSourceResult(Head(chGcp)) EXCEPT
                               !.status = "Unavailable", !.err = "client"],
                     nilClient |-> TRUE]
               ELSE [pc |-> "list",
                     sr |-> NewSourceResult(Head(chGcp)),
                     nilClient |-> FALSE]
  /\ UNCHANGED <<routerVars, chAws, chAzure, chSend, closed, wAws, wAzure,
                 produced, senderVars, coordVars, consumerNotify, wgVars,
                 panic>>
  /\ UNCHANGED <<chanCap, jobVars>>

\* checkSourceAvailabilityGCP: chSend <- sr of line 190.
GcpSendClientErr ==
  /\ Running
  /\ wGcp.pc = "sendClientErr"
  /\ SendResult(wGcp.sr)
  /\ wGcp' = IF closed["chSend"] THEN wGcp
             ELSE [wGcp EXCEPT !.pc = "list", !.sr.n = 2]
  /\ UNCHANGED <<routerVars, providerChans, closed, wAws, wAzure, senderVars,
                 coordVars, consumerNotify, wgVars>>
  /\ UNCHANGED <<chanCap, jobVars>>

\* checkSourceAvailabilityGCP: gcpClient.ListAllRegions.  After a failed
\* GetGCPClient the client may be nil, and the call then panics; a non-nil
\* client answers as usual.
GcpList(outcome) ==
  /\ Running
  /\ wGcp.pc = "list"
  /\ outcome = "nil dereference" => wGcp.nilClient
  /\ CASE outcome = "nil dereference" ->
            /\ panic' = "nil dereference"
            /\ wGcp' = wGcp
       [] outcome = "error" ->
            /\ panic' = panic
            /\ wGcp' = [wGcp EXCEPT !.pc = "send",
                                    !.sr.status = "Unavailable",
                                    !.sr.err = "list"]
       [] outcome = "ok" ->
            /\ panic' = panic
            /\ wGcp' = [wGcp EXCEPT !.pc = "send",
                                    !.sr.status = "Available"]
  /\ UNCHANGED <<routerVars, providerChans, chSend, closed, wAws, wAzure,
                 produced, senderVars, coordVars, consumerNotify, wgVars>>
  /\ UNCHANGED <<chanCap, jobVars>>

\* checkSourceAvailabilityGCP: chSend <- sr of line 197 or 200, then the
\* next iteration.
GcpSend ==
  /\ Running
  /\ wGcp.pc = "send"
  /\ SendResult(wGcp.sr)
  /\ wGcp' = IF closed["chSend"] THEN wGcp
             ELSE [pc |-> "recv", sr |-> NoResult, nilClient |-> FALSE]
  /\ UNCHANGED <<routerVars, providerChans, closed, wAws, wAzure, senderVars,
                 coordVars, consumerNotify, wgVars>>
  /\ UNCHANGED <<chanCap, jobVars>>

\* checkSourceAvailabilityGCP: the range loop ends, processingWG.Done().
GcpExit ==
  /\ Running
  /\ wGcp.pc = "recv"
  /\ RangeDone(chGcp, closed["chGcp"])
  /\ wGcp' = [wGcp EXCEPT !.pc = "done"]
  /\ processingWG' = processingWG - 1
  /\ UNCHANGED <<routerVars, providerChans, chSend, closed, wAws, wAzure,
                 produced, senderVars, coordVars, consumerNotify, receiverWG,
                 senderWG, panic>>
  /\ UNCHANGED <<chanCap, jobVars>>

\* ----------------------------------------------------------------- Sender
\* `length >= batchSize` of sendResults.
IsFullOffByOne(length) == length > BatchSize

IsFull(length) == length >= BatchSize

\* `messages = messages[:0]` after a flush.
NoReset(msgs) == msgs

ResetBatch(msgs) == <<>>

\* `length > 0` of the tick and cancel cases of sendResults.
NonEmptyOrZero(length) == length >= 0

NonEmpty(length) == length > 0

\* One call kafka.Send(ctx, messages...).
KafkaSend(msgs, cause, ok) == [msgs |-> msgs, cause |-> cause, ok |-> ok]

\* `messages = append(messages, msg)` of sendResults.
PrependMessage(msgs, sr) == <<sr>> \o msgs

AppendMessage(msgs, sr) == Append(msgs, sr)

\* HandleResult keeping the batch for another attempt when kafka.Send fails.
HandleResultRetry(sr, encOk, sendOk) ==
  IF ~encOk
    THEN /\ dropped' = Append(dropped, sr)
         /\ UNCHANGED <<messages, sent>>
    ELSE /\ dropped' = dropped
         /\ IF Len(messages) + 1 >= BatchSize
              THEN /\ sent' = Append(sent, [msgs |-> Append(messages, sr),
                                            cause |-> "full buffer",
                                            ok |-> sendOk])
                   /\ messages' = IF sendOk THEN <<>> ELSE Append(messages, sr)
              ELSE /\ messages' = Append(messages, sr)
                   /\ sent' = sent

\* The body of `case sr := <-chSend`: encode sr, append it, flush when the
\* buffer is full.  encOk and sendOk are what GenericMessage and kafka.Send
\* return.
HandleResult(sr, encOk, sendOk) ==
  IF ~encOk
    THEN /\ dropped' = Append(dropped, sr)
         /\ UNCHANGED <<messages, sent>>
    ELSE /\ dropped' = dropped
         /\ IF IsFull(Len(messages) + 1)
              THEN /\ sent' = Append(sent,
                                      KafkaSend(AppendMessage(messages, sr),
                                                "full buffer", sendOk))
                   /\ messages' = ResetBatch(AppendMessage(messages, sr))
              ELSE /\ messages' = AppendMessage(messages, sr)
                   /\ sent' = sent

\* sendResults: a result is received from chSend.
BatcherRecv(encOk, sendOk) ==
  /\ Running
  /\ bPc = "select"
  /\ chSend # <<>>
  /\ chSend' = Tail(chSend)
  /\ HandleResult(Head(chSend), encOk, sendOk)
  /\ UNCHANGED <<routerVars, providerChans, closed, workerVars, produced,
                 bPc, tickerOn, zeroRecv, coordVars, consumerNotify, wgVars,
                 panic>>
  /\ UNCHANGED <<chanCap, jobVars>>

\* sendResults: chSend is closed and drained, the receive returns the zero
\* value at once.
BatcherRecvClosed(encOk, sendOk) ==
  /\ Running
  /\ bPc = "select"
  /\ chSend = <<>>
  /\ closed["chSend"]
  /\ zeroRecv < MaxZero
  /\ zeroRecv' = zeroRecv + 1
  /\ HandleResult(ZeroResult, encOk, sendOk)
  /\ UNCHANGED <<routerVars, providerChans, chSend, closed, workerVars,
                 produced, bPc, tickerOn, coordVars, consumerNotify, wgVars,
                 panic>>
  /\ UNCHANGED <<chanCap, jobVars>>

\* sendResults without the ticker case.
BatcherTickIdle(sendOk) ==
  /\ Running
  /\ bPc = "select"
  /\ tickerOn
  /\ UNCHANGED vars

\* sendResults: the ticker fires.
BatcherTick(sendOk) ==
  /\ Running
  /\ bPc = "select"
  /\ tickerOn
  /\ IF NonEmpty(Len(messages))
       THEN /\ sent' = Append(sent, KafkaSend(messages, "tick", sendOk))
            /\ messages' = ResetBatch(messages)
       ELSE UNCHANGED <<messages, sent>>
  /\ UNCHANGED <<routerVars, providerChans, chSend, closed, workerVars,
                 produced, bPc, tickerOn, dropped, zeroRecv, coordVars,
                 consumerNotify, wgVars, panic>>
  /\ UNCHANGED <<chanCap, jobVars>>

\* sendResults returning on ctx.Done() without the last kafka.Send.
BatcherCancelNoFlush(sendOk) ==
  /\ Running
  /\ bPc = "select"
  /\ ctxCancelled
  /\ tickerOn' = FALSE
  /\ bPc' = "done"
  /\ senderWG' = senderWG - 1
  /\ UNCHANGED <<routerVars, providerChans, chSend, closed, workerVars,
                 produced, messages, sent, dropped, zeroRecv, coordVars,
                 consumerNotify, receiverWG, processingWG, panic>>
  /\ UNCHANGED <<chanCap, jobVars>>

\* sendResults: ctx.Done() is ready; flush what is buffered and return.
BatcherCancel(sendOk) ==
  /\ Running
  /\ bPc = "select"
  /\ ctxCancelled
  /\ tickerOn' = FALSE
  /\ IF NonEmpty(Len(messages))
       THEN sent' = Append(sent, KafkaSend(messages, "cancel", sendOk))
       ELSE sent' = sent
  /\ bPc' = "done"
  /\ senderWG' = senderWG - 1
  /\ UNCHANGED <<routerVars, providerChans, chSend, closed, workerVars,
                 produced, messages, dropped, zeroRecv, coordVars,
                 consumerNotify, receiverWG, processingWG, panic>>
  /\ UNCHANGED <<chanCap, jobVars>>

\* ------------------------------------------------------------ Coordinator
\* receiverWG.Wait(), processingWG.Wait(), senderWG.Wait() return.
NoWait == TRUE

ReceiverWait == receiverWG = 0

ProcessingWait == processingWG = 0

SenderNoWait == TRUE

SenderWait == senderWG = 0

\* Running / Draining / Stopped of the shutdown sequence.
CoordState ==
  IF cPc = "select" THEN "Running"
  ELSE IF cPc = "stopped" THEN "Stopped"
  ELSE "Draining"

\* SIGINT or SIGTERM arrives, at any time before statuser() returns: the
\* goroutine of lines 298-306 calls close(signalNotify).  A signal whose
\* metricsServer.Shutdown does not return is a signal that does not arrive.
Signal ==
  /\ Running
  /\ ~signalNotify
  /\ cPc # "stopped"
  /\ signalNotify' = TRUE
  /\ UNCHANGED <<routerVars, providerChans, chSend, closed, workerVars,
                 produced, senderVars, cPc, ctxCancelled, atShutdown,
                 consumerNotify, wgVars, panic>>
  /\ UNCHANGED <<chanCap, jobVars>>

\* What is enqueued on the provider queues and on chSend.
Enqueued ==
  [reqs |-> Range(chAws) \cup Range(chAzure) \cup Range(chGcp),
   results |-> Range(chSend),
   taken |-> TRUE]

\* The select of statuser() returns and consumerCancelFunc() is called.
Shutdown(t) ==
  /\ Running
  /\ cPc = "select"
  /\ \/ t = "signal" /\ signalNotify
     \/ t = "consumer" /\ consumerNotify
  /\ ctxCancelled' = TRUE
  /\ cPc' = "waitReceiver"
  /\ UNCHANGED <<routerVars, providerChans, chSend, closed, workerVars,
                 produced, senderVars, signalNotify, consumerNotify, wgVars,
                 panic>>
  /\ UNCHANGED <<chanCap, jobVars>>

CoordShutdown(t) == Shutdown(t) /\ UNCHANGED atShutdown

\* The same step, with the history variable atShutdown recording what is
\* enqueued at that moment.
CoordShutdownObserved(t) == Shutdown(t) /\ atShutdown' = Enqueued

CoordStep(from, to) ==
  /\ Running
  /\ cPc = from
  /\ cPc' = to
  /\ UNCHANGED <<routerVars, providerChans, chSend, workerVars, produced,
                 senderVars, signalNotify, ctxCancelled, atShutdown,
                 consumerNotify, wgVars, panic>>
  /\ UNCHANGED <<chanCap, jobVars>>

CoordWaitReceiver ==
  /\ ReceiverWait
  /\ CoordStep("waitReceiver", "closeAws")
  /\ UNCHANGED closed

CoordCloseAws ==
  /\ CoordStep("closeAws", "closeAzure")
  /\ closed' = [closed EXCEPT !["chAws"] = TRUE]

CoordCloseAzure ==
  /\ CoordStep("closeAzure", "closeGcp")
  /\ closed' = [closed EXCEPT !["chAzure"] = TRUE]

CoordCloseGcp ==
  /\ CoordStep("closeGcp", "waitProcessing")
  /\ closed' = [closed EXCEPT !["chGcp"] = TRUE]

CoordWaitProcessing ==
  /\ ProcessingWait
  /\ CoordStep("waitProcessing", "closeSend")
  /\ UNCHANGED closed

CoordCloseSend ==
  /\ CoordStep("closeSend", "waitSender")
  /\ closed' = [closed EXCEPT !["chSend"] = TRUE]

CoordWaitSender ==
  /\ SenderWait
  /\ CoordStep("waitSender", "stopped")
  /\ UNCHANGED closed

\* ------------------------------------------------------------------- Next
\* Messages that resolve to a provider with a worker.
ValidMessages ==
  {m \in Messages : processMessageTarget(m) # "none"}

AwsMessages == {m \in ValidMessages : m.ptype = "AWS"}

\* kafka.Consume delivers the next message, whatever it is.
Receive == nextId <= MaxRequests /\ \E m \in Messages : Consume(m)

\* kafka.Consume delivers the next message, which is recorded.
ReceiveObserved ==
  nextId <= MaxRequests /\ \E m \in Messages : ConsumeObserved(m)

\* kafka.Consume delivers the next message, a valid one of an AWS source.
ReceiveAws == nextId <= MaxSenderRequests /\ \E m \in AwsMessages : Consume(m)

ConsumerSteps ==
  \/ RouterSend
  \/ ConsumerExitCancelled
  \/ ConsumerExitUnexpected

WorkerSteps ==
  \/ \E e \in BOOLEAN : AwsRecv(e)
  \/ AwsSend
  \/ AwsExit
  \/ AzureRecv
  \/ AzureSend
  \/ AzureExit
  \/ \E e \in BOOLEAN : GcpRecv(e)
  \/ GcpSendClientErr
  \/ \E o \in {"nil dereference", "error", "ok"} : GcpList(o)
  \/ GcpSend
  \/ GcpExit

\* The sender with every outcome of GenericMessage and kafka.Send.
SenderSteps ==
  \/ \E e \in BOOLEAN, k \in BOOLEAN : BatcherRecv(e, k)
  \/ \E e \in BOOLEAN, k \in BOOLEAN : BatcherRecvClosed(e, k)
  \/ \E k \in BOOLEAN : BatcherTick(k)
  \/ \E k \in BOOLEAN : BatcherCancel(k)

\* The sender when GenericMessage and kafka.Send always succeed.
SenderStepsOk ==
  \/ BatcherRecv(TRUE, TRUE)
  \/ BatcherRecvClosed(TRUE, TRUE)
  \/ BatcherTick(TRUE)
  \/ BatcherCancel(TRUE)

CoordSteps ==
  \/ Signal
  \/ CoordWaitReceiver
  \/ CoordCloseAws
  \/ CoordCloseAzure
  \/ CoordCloseGcp
  \/ CoordWaitProcessing
  \/ CoordCloseSend
  \/ CoordWaitSender

\* The whole program: every message, every outcome of every call.
Next ==
  \/ Receive
  \/ ConsumerSteps
  \/ WorkerSteps
  \/ SenderSteps
  \/ CoordSteps
  \/ \E t \in {"signal", "consumer"} : CoordShutdown(t)

Spec == Init /\ [][Next]_vars

\* The three providers side by side; encoding and sending always succeed
\* (their outcome has no effect on anything upstream of the sender).
NextProviders ==
  \/ Receive
  \/ ConsumerSteps
  \/ WorkerSteps
  \/ SenderStepsOk
  \/ CoordSteps
  \/ \E t \in {"signal", "consumer"} : CoordShutdown(t)

SpecProviders == Init /\ [][NextProviders]_vars

\* As SpecProviders, recording in atShutdown what is enqueued when the
\* shutdown starts.
NextDrain ==
  \/ Receive
  \/ ConsumerSteps
  \/ WorkerSteps
  \/ SenderStepsOk
  \/ CoordSteps
  \/ \E t \in {"signal", "consumer"} : CoordShutdownObserved(t)

SpecDrain == Init /\ [][NextDrain]_vars

\* The running pipeline (no shutdown), recording every inbound message in
\* received; encoding and sending always succeed.
NextRouter ==
  \/ ReceiveObserved
  \/ RouterSend
  \/ \E e \in BOOLEAN : AwsRecv(e)
  \/ AwsSend
  \/ AzureRecv
  \/ AzureSend
  \/ \E e \in BOOLEAN : GcpRecv(e)
  \/ GcpSendClientErr
  \/ \E o \in {"nil dereference", "error", "ok"} : GcpList(o)
  \/ GcpSend
  \/ BatcherRecv(TRUE, TRUE)
  \/ BatcherTick(TRUE)

SpecRouter == Init /\ [][NextRouter]_vars

\* The running pipeline (no shutdown) in which a probe of the AWS worker may
\* never return; encoding and sending always succeed.
ReceiveValid == nextId <= MaxRequests /\ \E m \in ValidMessages : Consume(m)

NextIsolation ==
  \/ ReceiveValid
  \/ RouterSend
  \/ \E e \in BOOLEAN : AwsRecv(e)
  \/ AwsRecvHangs
  \/ AwsSend
  \/ AzureRecv
  \/ AzureSend
  \/ \E e \in BOOLEAN : GcpRecv(e)
  \/ GcpSendClientErr
  \/ \E o \in {"nil dereference", "error", "ok"} : GcpList(o)
  \/ GcpSend
  \/ BatcherRecv(TRUE, TRUE)
  \/ BatcherTick(TRUE)

\* The Azure worker, the GCP worker and sendResults are goroutines of their
\* own and the ticker fires every tickDuration: each of their steps that
\* stays possible is taken.  Nothing is assumed of the AWS worker.
FairIsolation ==
  /\ Init /\ [][NextIsolation]_vars
  /\ WF_vars(AzureRecv)
  /\ WF_vars(AzureSend)
  /\ WF_vars(\E e \in BOOLEAN : GcpRecv(e))
  /\ WF_vars(GcpSendClientErr)
  /\ WF_vars(\E o \in {"nil dereference", "error", "ok"} : GcpList(o))
  /\ WF_vars(GcpSend)
  /\ WF_vars(BatcherRecv(TRUE, TRUE))
  /\ WF_vars(BatcherTick(TRUE))

\* The running sender (no shutdown) fed by one provider, with every outcome
\* of encoding and sending.  The ticker fires every tickDuration, so a tick
\* that can flush does flush; nothing is assumed of the arrival of results.
NextTick ==
  \/ ReceiveAws
  \/ RouterSend
  \/ \E e \in BOOLEAN : AwsRecv(e)
  \/ AwsSend
  \/ \E e \in BOOLEAN, k \in BOOLEAN : BatcherRecv(e, k)
  \/ \E k \in BOOLEAN : BatcherTick(k)

FairTick ==
  /\ Init /\ [][NextTick]_vars
  /\ WF_vars(\E k \in BOOLEAN : BatcherTick(k))

\* The running pipeline (no shutdown) with queues that hold two items, for
\* the order in which sources and results go through them; encoding and
\* sending always succeed.
InitFifo == InitWith(FifoBuffer)

ReceiveFifo ==
  nextId <= MaxFifoRequests /\ \E m \in ValidMessages : Consume(m)

NextFifo ==
  \/ ReceiveFifo
  \/ RouterSend
  \/ \E e \in BOOLEAN : AwsRecv(e)
  \/ AwsSend
  \/ AzureRecv
  \/ AzureSend
  \/ \E e \in BOOLEAN : GcpRecv(e)
  \/ GcpSendClientErr
  \/ \E o \in {"nil dereference", "error", "ok"} : GcpList(o)
  \/ GcpSend
  \/ BatcherRecv(TRUE, TRUE)
  \/ BatcherTick(TRUE)

SpecFifo == InitFifo /\ [][NextFifo]_vars

\* One provider feeding the sender, with every outcome of encoding and
\* sending (the sender does not tell providers apart).
NextSender ==
  \/ ReceiveAws
  \/ ConsumerSteps
  \/ \E e \in BOOLEAN : AwsRecv(e)
  \/ AwsSend
  \/ AwsExit
  \/ AzureExit
  \/ GcpExit
  \/ SenderSteps
  \/ CoordSteps
  \/ \E t \in {"signal", "consumer"} : CoordShutdown(t)

SpecSender == Init /\ [][NextSender]_vars

\* SpecSender with the scheduling the Go runtime gives: a goroutine that can
\* take a step eventually takes it, and kafka.Consume returns once its
\* context is cancelled.  Nothing is assumed of the environment: no message
\* and no signal has to arrive, kafka.Consume need not return on its own,
\* and the ticker is not needed for progress.
FairSender ==
  /\ SpecSender
  /\ WF_vars(RouterSend)
  /\ WF_vars(ConsumerExitCancelled)
  /\ WF_vars(\E e \in BOOLEAN : AwsRecv(e))
  /\ WF_vars(AwsSend)
  /\ WF_vars(AwsExit)
  /\ WF_vars(AzureExit)
  /\ WF_vars(GcpExit)
  /\ WF_vars(\E e \in BOOLEAN, k \in BOOLEAN : BatcherRecv(e, k))
  /\ WF_vars(\E k \in BOOLEAN : BatcherCancel(k))
  /\ WF_vars(CoordWaitReceiver \/ CoordCloseAws \/ CoordCloseAzure
             \/ CoordCloseGcp \/ CoordWaitProcessing \/ CoordCloseSend
             \/ CoordWaitSender
             \/ \E t \in {"signal", "consumer"} : CoordShutdown(t))

\* ------------------------------------------------------- pubkey upload job
\* What a pubkey resource is looked up by.
ResourceKey(args) ==
  [pubkey |-> args.pubkey, source |-> args.source, region |-> args.region]

\* pkDao.UnscopedGetResourceBySourceAndRegion: the row, dao.ErrNoRows when
\* there is none, or another error.
GetResource(args, dbErr) ==
  IF dbErr THEN "error"
  ELSE IF ResourceKey(args) \in Range(jResources) THEN "row"
  ELSE "norows"

\* `skip` of handlePubkeyUploadAWS once the presence check returned without
\* an error other than dao.ErrNoRows.
NeverSkip(lookup) == FALSE

SkipUpload(lookup) == lookup # "norows"

\* finishJob(ctx, args.ReservationID, jobErr).
FinishJob(r, args, err) ==
  [run |-> r, reservation |-> args.reservation, err |-> err]

\* handlePubkeyUploadAWS returns err; the deferred updateStatusAfter and
\* finishJob are still to come.
JobReturn(r, run, err) ==
  /\ jRuns' = [jRuns EXCEPT ![r] = [run EXCEPT !.pc = "finish", !.err = err]]
  /\ jFinished' = jFinished

\* HandlePubkeyUploadAWS up to GetById: decodeJob, updateStatusBefore,
\* GetById (lines 26-58).  The job queue hands out the jobs in order; a run
\* need not wait for the runs before it.
JobStart(r, args, decodeOk, getErr) ==
  /\ jRuns[r].pc = "queued"
  /\ r > 1 => jRuns[r - 1].pc # "queued"
  /\ LET run == [jRuns[r] EXCEPT !.args = args, !.decoded = decodeOk]
     IN IF ~decodeOk
          THEN /\ jRuns' = [jRuns EXCEPT ![r] = [run EXCEPT !.pc = "done",
                                                            !.err = "decode"]]
               /\ jFinished' = jFinished
        ELSE IF getErr
          THEN JobReturn(r, run, "get pubkey")
        ELSE /\ jRuns' = [jRuns EXCEPT ![r] = [run EXCEPT !.pc = "check"]]
             /\ jFinished' = jFinished
  /\ UNCHANGED <<jResources, jImports>>
  /\ UNCHANGED statuserVars

\* handlePubkeyUploadAWS: the presence check (lines 61-74).
JobCheck(r, dbErr) ==
  /\ jRuns[r].pc = "check"
  /\ LET run == [jRuns[r] EXCEPT
                   !.existed = ResourceKey(jRuns[r].args) \in Range(jResources)]
         lookup == GetResource(jRuns[r].args, dbErr)
     IN IF lookup = "error"
          THEN JobReturn(r, run, "check resource")
        ELSE IF SkipUpload(lookup)
          THEN JobReturn(r, run, "none")
        ELSE /\ jRuns' = [jRuns EXCEPT ![r] = [run EXCEPT !.pc = "import"]]
             /\ jFinished' = jFinished
  /\ UNCHANGED <<jResources, jImports>>
  /\ UNCHANGED statuserVars

\* handlePubkeyUploadAWS: GetEC2Client and ImportPubkey (lines 86-98).
JobImport(r, clientErr, importOut) ==
  /\ jRuns[r].pc = "import"
  /\ IF clientErr
       THEN /\ JobReturn(r, jRuns[r], "ec2 client")
            /\ jImports' = jImports
       ELSE /\ jImports' = Append(jImports,
                                  [run |-> r,
                                   key |-> ResourceKey(jRuns[r].args),
                                   ok |-> importOut = "ok"])
            /\ CASE importOut = "duplicate" ->
                      JobReturn(r, [jRuns[r] EXCEPT !.imported = TRUE],
                                "already present")
                 [] importOut = "error" ->
                      JobReturn(r, [jRuns[r] EXCEPT !.imported = TRUE],
                                "import")
                 [] importOut = "ok" ->
                      /\ jRuns' = [jRuns EXCEPT ![r].pc = "create",
                                                ![r].imported = TRUE,
                                                ![r].importOk = TRUE]
                      /\ jFinished' = jFinished
  /\ UNCHANGED jResources
  /\ UNCHANGED statuserVars

\* handlePubkeyUploadAWS: UnscopedCreateResource and the return (lines
\* 101-106).
JobCreate(r, createErr) ==
  /\ jRuns[r].pc = "create"
  /\ IF createErr
       THEN /\ JobReturn(r, jRuns[r], "create resource")
            /\ jResources' = jResources
       ELSE /\ JobReturn(r, [jRuns[r] EXCEPT !.created = TRUE], "none")
            /\ jResources' = Append(jResources, ResourceKey(jRuns[r].args))
  /\ UNCHANGED jImports
  /\ UNCHANGED statuserVars

\* HandlePubkeyUploadAWS after handlePubkeyUploadAWS has returned:
\* finishJob with the job error, then the return (lines 36-37).
JobFinish(r) ==
  /\ jRuns[r].pc = "finish"
  /\ jRuns' = [jRuns EXCEPT ![r].pc = "done"]
  /\ jFinished' = Append(jFinished,
                         FinishJob(r, jRuns[r].args, jRuns[r].err))
  /\ UNCHANGED <<jResources, jImports>>
  /\ UNCHANGED statuserVars

JobStartAny ==
  \E r \in 1..MaxJobs, args \in JobArgs, decodeOk \in BOOLEAN,
     getErr \in BOOLEAN :
    JobStart(r, args, decodeOk, getErr)

JobCheckAny == \E r \in 1..MaxJobs, dbErr \in BOOLEAN : JobCheck(r, dbErr)

JobImportAny ==
  \E r \in 1..MaxJobs, clientErr \in BOOLEAN,
     importOut \in {"ok", "duplicate", "error"} :
    JobImport(r, clientErr, importOut)

JobCreateAny ==
  \E r \in 1..MaxJobs, createErr \in BOOLEAN : JobCreate(r, createErr)

JobFinishAny == \E r \in 1..MaxJobs : JobFinish(r)

\* The runs of the job, which the workers of the job queue take side by
\* side: between the calls of one run the others go on.
NextJob ==
  \/ JobStartAny
  \/ JobCheckAny
  \/ JobImportAny
  \/ JobCreateAny
  \/ JobFinishAny

SpecJob == Init /\ [][NextJob]_vars

\* ------------------------------------------------------------ properties
\* Positions <<i, j>> of the entries of the batches handed to kafka.Send.
SentEntries ==
  UNION {{<<i, j>> : j \in 1..Len(sent[i].msgs)} : i \in 1..Len(sent)}

EntryAt(e) == sent[e[1]].msgs[e[2]]

\* The results that were handed to kafka.Send.
FlushedResults == {EntryAt(e) : e \in SentEntries}

\* Ids of the requests processMessage sent to queue q.
RoutedTo(q) == {id \in 1..Len(routed) : routed[id] = q}

\* Number of results the workers enqueued on chSend for source id.
ProducedFor(id) == Cardinality({i \in 1..Len(produced) : produced[i].id = id})

\* The request is still on its way to the end of a worker iteration.
InFlight(id) ==
  \/ rItem.id = id
  \/ id \in Range(chAws) \cup Range(chAzure) \cup Range(chGcp)
  \/ wAws.sr.id = id
  \/ wAzure.sr.id = id
  \/ wGcp.sr.id = id

WorkersDone == wAws.pc = "done" /\ wAzure.pc = "done" /\ wGcp.pc = "done"

\* C1: when the coordinator has reached Stopped, every result that was on
\* chSend and a result for every request that was on a provider queue when
\* the shutdown started has been handed to kafka.Send, and nothing is left
\* unread in chSend or in a provider queue.
DrainCompleteness ==
  cPc = "stopped" =>
    /\ chAws = <<>> /\ chAzure = <<>> /\ chGcp = <<>> /\ chSend = <<>>
    /\ \A r \in atShutdown.results : r \in FlushedResults
    /\ \A id \in atShutdown.reqs : \E r \in FlushedResults : r.id = id

\* C2: with no shutdown triggered, no panic and no encoding failure, once
\* the pipeline has nothing left to do, the flushed batches contain exactly
\* as many results as there were requests routed to a provider queue.
NoLossNormalOperation ==
  ( /\ ~ctxCancelled /\ ~signalNotify /\ ~consumerNotify /\ Running
    /\ rPc = "idle"
    /\ chAws = <<>> /\ chAzure = <<>> /\ chGcp = <<>> /\ chSend = <<>>
    /\ wAws.pc = "recv" /\ wAzure.pc = "recv" /\ wGcp.pc = "recv"
    /\ messages = <<>> /\ dropped = <<>> )
  => Cardinality(SentEntries)
       = Cardinality({id \in 1..Len(routed) : routed[id] # "none"})

\* C3: a source a worker has dequeued never has more than one result on
\* chSend, and has exactly one once the worker's iteration for it is over.
ExactlyOneResultPerSource ==
  \A id \in 1..Len(routed) :
    /\ ProducedFor(id) <= 1
    /\ (routed[id] # "none" /\ ~InFlight(id)) => ProducedFor(id) = 1

\* C4: every batch handed to kafka.Send has at most batchSize entries, and
\* while sendResults waits in its select the buffer holds fewer than
\* batchSize entries.
BatchSizeBound ==
  /\ \A i \in 1..Len(sent) : Len(sent[i].msgs) <= BatchSize
  /\ bPc = "select" => Len(messages) < BatchSize

\* C4 witness: a full-buffer flush of exactly batchSize entries happened and
\* the sender is waiting again with a partly filled buffer.
BatchSizeBoundWitness ==
  /\ \E i \in 1..Len(sent) :
       sent[i].cause = "full buffer" /\ Len(sent[i].msgs) = BatchSize
  /\ bPc = "select"
  /\ Len(messages) > 0

\* C5: a provider queue is closed only after the consumer goroutine has
\* exited, chSend is closed only after the three workers have exited, and no
\* send on a closed channel ever happens.
NoCloseWhileProducing ==
  /\ (closed["chAws"] \/ closed["chAzure"] \/ closed["chGcp"])
       => rPc = "exited"
  /\ closed["chSend"] => WorkersDone
  /\ panic # "send on closed channel"

\* C5 witness: all four queues are closed after requests went through the
\* three workers' queues.
NoCloseWhileProducingWitness ==
  /\ closed["chAws"] /\ closed["chAzure"] /\ closed["chGcp"]
  /\ closed["chSend"]
  /\ Len(produced) >= 2

\* C6: sendResults has returned only if chSend has been closed.
BatcherExitsAfterClose == bPc = "done" => closed["chSend"]

\* C7: once the shutdown is triggered the coordinator reaches Stopped.
ShutdownTerminates == ctxCancelled ~> (cPc = "stopped")

\* C8: no result of a worker is in two entries of the batches handed to
\* kafka.Send, none is both in a batch and in the buffer the running sender
\* will flush next, and none is both in a batch and dropped.
NoDuplication ==
  /\ \A e1 \in SentEntries, e2 \in SentEntries :
       (e1 # e2 /\ EntryAt(e1).id # 0) => EntryAt(e1) # EntryAt(e2)
  /\ bPc = "select" =>
       \A e \in SentEntries, k \in 1..Len(messages) :
         EntryAt(e).id # 0 => EntryAt(e) # messages[k]
  /\ \A e \in SentEntries, k \in 1..Len(dropped) :
       EntryAt(e).id # 0 => EntryAt(e) # dropped[k]

\* C8 witness: a failed flush was followed by another flush, both with
\* results of workers, and a result was dropped.
NoDuplicationWitness ==
  /\ \E i \in 1..Len(sent), j \in 1..Len(sent) :
       /\ i < j
       /\ ~sent[i].ok
       /\ sent[i].msgs[1].id # 0
       /\ sent[j].msgs[1].id # 0
  /\ \E k \in 1..Len(dropped) : dropped[k].id # 0

\* C9: no queue holds more than ChannelBuffer items, and a request routed to
\* a provider queue is never discarded: it is held by the blocked Router, is
\* on its queue, is held by the worker, or has a result on chSend.
Backpressure ==
  /\ Len(chAws) <= ChannelBuffer
  /\ Len(chAzure) <= ChannelBuffer
  /\ Len(chGcp) <= ChannelBuffer
  /\ Len(chSend) <= ChannelBuffer
  /\ \A id \in 1..Len(routed) :
       routed[id] # "none" => (InFlight(id) \/ ProducedFor(id) >= 1)
  /\ \A i \in 1..Len(produced) :
       \/ produced[i] \in Range(chSend)
       \/ produced[i] \in Range(messages)
       \/ produced[i] \in FlushedResults
       \/ produced[i] \in Range(dropped)

\* C9 witness: the Router is blocked in its send on a full provider queue.
BackpressureWitness ==
  /\ rPc = "send"
  /\ \/ rItem.target = "chAws" /\ Len(chAws) = ChannelBuffer
     \/ rItem.target = "chAzure" /\ Len(chAzure) = ChannelBuffer
     \/ rItem.target = "chGcp" /\ Len(chGcp) = ChannelBuffer

\* C10: a worker has left its loop only if its queue is closed and empty,
\* and then every request routed to that queue has a result on chSend.
WorkerExitsOnlyWhenDrained ==
  /\ wAws.pc = "done" =>
       /\ closed["chAws"] /\ chAws = <<>>
       /\ \A id \in RoutedTo("chAws") : ProducedFor(id) >= 1
  /\ wAzure.pc = "done" =>
       /\ closed["chAzure"] /\ chAzure = <<>>
       /\ \A id \in RoutedTo("chAzure") : ProducedFor(id) >= 1
  /\ wGcp.pc = "done" =>
       /\ closed["chGcp"] /\ chGcp = <<>>
       /\ \A id \in RoutedTo("chGcp") : ProducedFor(id) >= 1

\* C10 witness: the three workers have exited after the context was
\* cancelled, and a request had been routed to one of them.
WorkerExitsOnlyWhenDrainedWitness ==
  /\ WorkersDone
  /\ ctxCancelled
  /\ \E id \in 1..Len(routed) : routed[id] # "none"

\* C11: every call of kafka.Send carries at least one entry; in particular
\* a tick that finds the buffer empty adds no call.
NoEmptySend == \A i \in 1..Len(sent) : Len(sent[i].msgs) >= 1

\* C11 witness: after a tick flush the sender waits with an empty buffer and
\* a running ticker, so that the next tick finds nothing to send.
NoEmptySendWitness ==
  /\ bPc = "select"
  /\ tickerOn
  /\ messages = <<>>
  /\ Len(sent) >= 1
  /\ sent[Len(sent)].cause = "tick"

\* C12: a batch whose send failed is never sent again nor kept in the
\* buffer, and the step that records a failed full-buffer or tick send
\* leaves the sender in its select with an empty buffer, ready for the next
\* result.
SendFailureAbsorbed ==
  /\ [](\A i \in 1..Len(sent) :
          ~sent[i].ok =>
            \A k \in 1..Len(sent[i].msgs) :
              sent[i].msgs[k].id # 0 =>
                /\ \A j \in 1..Len(sent) :
                     j # i => sent[i].msgs[k] \notin Range(sent[j].msgs)
                /\ bPc = "select" => sent[i].msgs[k] \notin Range(messages))
  /\ [][( /\ Len(sent') = Len(sent) + 1
          /\ ~sent'[Len(sent')].ok
          /\ sent'[Len(sent')].cause # "cancel" )
        => ( /\ messages' = <<>>
             /\ bPc' = "select"
             /\ panic' = "none" )]_vars

\* C12 witness: a full-buffer or tick send failed, and a later send carries
\* a result a worker produced afterwards.
SendFailureAbsorbedWitness ==
  \E i \in 1..Len(sent), j \in 1..Len(sent) :
    /\ i < j
    /\ ~sent[i].ok
    /\ sent[i].cause # "cancel"
    /\ sent[j].ok
    /\ sent[j].msgs[1].id # 0

\* The credentials of the request were resolved.
Resolved(m) == m.decode /\ m.client /\ m.auth = "ok"

\* The Credential Resolver failed for the request.
ResolverFailed(m) == m.decode /\ m.client /\ m.auth # "ok"

ProviderQueues == {"chAws", "chAzure", "chGcp"}

QueueOf(q) ==
  CASE q = "chAws" -> chAws
    [] q = "chAzure" -> chAzure
    [] q = "chGcp" -> chGcp

WorkerOf(q) ==
  CASE q = "chAws" -> wAws
    [] q = "chAzure" -> wAzure
    [] q = "chGcp" -> wGcp

\* The request is on queue q, held by q's worker, or being sent to q.
OnPathOf(id, q) ==
  \/ id \in Range(QueueOf(q))
  \/ WorkerOf(q).sr.id = id
  \/ rItem.id = id /\ rItem.target = q

Occurrences(seq, x) == Cardinality({i \in 1..Len(seq) : seq[i] = x})

\* C13: a resolved AWS / Azure / GCP request is found on the path of its own
\* queue only (chAws / chAzure / chGcp), at most once on the queue and not
\* both there and still in the Router, and it is not lost; a resolved Noop
\* or Unknown request is on no path and has no result.
RouterClassification ==
  \A id \in 1..Len(received) :
    LET m == received[id]
        q == CASE m.ptype = "AWS" -> "chAws"
               [] m.ptype = "Azure" -> "chAzure"
               [] m.ptype = "GCP" -> "chGcp"
               [] OTHER -> "none"
    IN  Resolved(m) =>
          /\ \A o \in ProviderQueues \ {q} : ~OnPathOf(id, o)
          /\ q # "none" =>
               /\ Occurrences(QueueOf(q), id) <= 1
               /\ ~(rItem.id = id /\ id \in Range(QueueOf(q)))
               /\ OnPathOf(id, q) \/ ProducedFor(id) >= 1
          /\ q = "none" => ProducedFor(id) = 0

\* C13 witness: a resolved Azure request sits on chAzure after a resolved
\* Noop or Unknown request was skipped.
RouterClassificationWitness ==
  \E i \in 1..Len(received), j \in 1..Len(received) :
    /\ i < j
    /\ Resolved(received[i]) /\ received[i].ptype \in {"Noop", "Unknown"}
    /\ Resolved(received[j]) /\ received[j].ptype = "Azure"
    /\ j \in Range(chAzure)

\* C14: a request whose resolver call failed is on no path, has no result and
\* is in no batch; the invalid-request counter equals the number of such
\* requests; the Router is not left holding it.
ResolverFailureDropped ==
  /\ \A id \in 1..Len(received) :
       ResolverFailed(received[id]) =>
         /\ \A q \in ProviderQueues : ~OnPathOf(id, q)
         /\ ProducedFor(id) = 0
         /\ \A r \in FlushedResults : r.id # id
         /\ rItem.id # id
  /\ invalidReqs
       = Cardinality({id \in 1..Len(received) : ResolverFailed(received[id])})

\* C14 witness: a NotFound failure was counted once, and the request that
\* came after it went through to a flushed batch.
ResolverFailureDroppedWitness ==
  /\ invalidReqs = 1
  /\ \E i \in 1..Len(received), j \in 1..Len(received) :
       /\ i < j
       /\ ResolverFailed(received[i]) /\ received[i].auth = "notfound"
       /\ Resolved(received[j])
       /\ \E r \in FlushedResults : r.id = j

\* C15: every result a worker forwards is either Available without an error
\* (the probe succeeded) or Unavailable with the cause of the failure, and a
\* failed probe never takes the worker out of its loop by a panic.
ProbeOutcomeMapping ==
  /\ \A i \in 1..Len(produced) :
       \/ produced[i].status = "Available" /\ produced[i].err = "none"
       \/ produced[i].status = "Unavailable" /\ produced[i].err # "none"
  /\ panic # "nil dereference"

\* The batch stream: the entries of the batches handed to kafka.Send, in the
\* order of the calls, followed by what sendResults has buffered.
RECURSIVE Flatten(_)
Flatten(batches) ==
  IF batches = <<>> THEN <<>>
  ELSE batches[1].msgs \o Flatten(Tail(batches))

BatchStream == Flatten(sent) \o (IF bPc = "select" THEN messages ELSE <<>>)

\* In stream the results of one provider come in the order in which their
\* sources were given to processMessage.
OrderedPerProvider(stream) ==
  \A i \in 1..Len(stream), j \in 1..Len(stream) :
    ( /\ i < j
      /\ stream[i].id # 0
      /\ stream[j].id # 0
      /\ routed[stream[i].id] = routed[stream[j].id] )
    => stream[i].id <= stream[j].id

\* C16: for each provider, the sources are enqueued on its queue in the
\* order processMessage got them, the worker takes them in that order, and
\* the results of that provider are enqueued on chSend, and appear in the
\* batch stream, in that same order.
PerProviderFifo ==
  /\ \A q \in ProviderQueues :
       /\ \A i \in 1..Len(QueueOf(q)), j \in 1..Len(QueueOf(q)) :
            i < j => QueueOf(q)[i] < QueueOf(q)[j]
       /\ \A i \in 1..Len(QueueOf(q)) :
            /\ routed[QueueOf(q)[i]] = q
            /\ WorkerOf(q).sr.id < QueueOf(q)[i]
            /\ \A k \in 1..Len(produced) :
                 routed[produced[k].id] = q => produced[k].id < QueueOf(q)[i]
       /\ \A k \in 1..Len(produced) :
            ( routed[produced[k].id] = q /\ WorkerOf(q).sr.id # 0 )
            => produced[k].id <= WorkerOf(q).sr.id
  /\ OrderedPerProvider(produced)
  /\ OrderedPerProvider(chSend)
  /\ OrderedPerProvider(BatchStream)

\* Three sources of one provider: the second and the third are on its queue
\* together, in the order they came, and the result of the first is on
\* chSend or further.
PerProviderFifoWitness ==
  \E q \in ProviderQueues :
    /\ QueueOf(q) = <<2, 3>>
    /\ routed = <<q, q, q>>
    /\ ProducedFor(1) >= 1
    /\ WorkerOf(q).sr.id = 0

\* C17: once a probe of the AWS worker hangs, every source that is on the
\* queue of another provider gets a result that is handed to kafka.Send.
ProviderIsolation ==
  \A id \in 1..MaxRequests :
    ( /\ wAws.pc = "probe"
      /\ id \in Range(chAzure) \cup Range(chGcp) )
    ~> (\E r \in FlushedResults : r.id = id)

\* C18: while the pipeline runs, a tick that finds results buffered hands
\* the whole buffer to kafka.Send in one call and leaves the buffer empty; a
\* call that follows no receive from chSend is such a tick.  Results that
\* stay buffered because no more arrive are flushed by a tick.
TimeTriggeredFlush ==
  /\ [][ /\ ( (\E k \in BOOLEAN : BatcherTick(k)) /\ messages # <<>> )
            => ( /\ Len(sent') = Len(sent) + 1
                 /\ sent'[Len(sent')].msgs = messages
                 /\ messages' = <<>> )
         /\ ( Len(sent') = Len(sent) + 1 /\ chSend' = chSend )
            => ( /\ messages # <<>>
                 /\ sent'[Len(sent')].msgs = messages
                 /\ sent'[Len(sent')].cause = "tick"
                 /\ messages' = <<>>
                 /\ bPc' = "select" ) ]_vars
  /\ (bPc = "select" /\ messages # <<>>) ~> (messages = <<>>)

\* BatchSize + 1 results: a first call with exactly BatchSize of them when
\* the buffer filled up, and a second, by the tick, with the remaining one.
TimeTriggeredFlushWitness ==
  /\ Len(sent) = 2
  /\ sent[1].cause = "full buffer"
  /\ Len(sent[1].msgs) = BatchSize
  /\ sent[2].cause = "tick"
  /\ Len(sent[2].msgs) = 1
  /\ {r.id : r \in FlushedResults} = 1..(BatchSize + 1)
  /\ messages = <<>>
  /\ chSend = <<>>

\* Position of the coordinator in the shutdown sequence of statuser().
CoordRank ==
  CASE cPc = "select" -> 0
    [] cPc = "waitReceiver" -> 1
    [] cPc = "closeAws" -> 2
    [] cPc = "closeAzure" -> 3
    [] cPc = "closeGcp" -> 4
    [] cPc = "waitProcessing" -> 5
    [] cPc = "closeSend" -> 6
    [] cPc = "waitSender" -> 7
    [] cPc = "stopped" -> 8

StateRank(st) ==
  CASE st = "Running" -> 0
    [] st = "Draining" -> 1
    [] st = "Stopped" -> 2

\* C19: whichever of the signal and the exit of the consumer starts the
\* shutdown, the coordinator takes the same steps in the same order: cancel
\* the consumer and wait for it, close the provider queues and wait for the
\* workers, close chSend and wait for the sender, stop; and the state only
\* goes from Running to Draining to Stopped.
ShutdownProtocol ==
  /\ [](/\ CoordRank = 0 => ~ctxCancelled
        /\ CoordRank >= 1 => ctxCancelled /\ (signalNotify \/ consumerNotify)
        /\ CoordRank >= 2 => receiverWG = 0 /\ rPc = "exited"
        /\ closed["chAws"] <=> CoordRank >= 3
        /\ closed["chAzure"] <=> CoordRank >= 4
        /\ closed["chGcp"] <=> CoordRank >= 5
        /\ CoordRank >= 6 => processingWG = 0 /\ WorkersDone
        /\ closed["chSend"] <=> CoordRank >= 7
        /\ CoordRank = 8 => senderWG = 0 /\ bPc = "done")
  /\ [][ /\ CoordRank' \in {CoordRank, CoordRank + 1}
         /\ StateRank(CoordState') >= StateRank(CoordState)
         /\ \A t \in {"signal", "consumer"} :
              CoordShutdown(t) => (CoordRank' = 1 /\ ctxCancelled') ]_vars

\* The coordinator has gone through the whole sequence after the consumer
\* had exited on its own, with no signal.
ShutdownProtocolWitness ==
  /\ cPc = "stopped"
  /\ consumerNotify
  /\ ~signalNotify

\* C20: when sendResults takes the ctx.Done() case it calls kafka.Send at
\* most once more: with exactly the buffered results if there are any, however
\* few, and not at all if there are none; it receives nothing from chSend in
\* that step and returns, after which it neither sends nor receives.
FinalFlush ==
  /\ [](bPc = "done" => ctxCancelled /\ ~tickerOn /\ senderWG = 0)
  /\ [][ (\E k \in BOOLEAN : BatcherCancel(k))
         => ( /\ bPc' = "done"
              /\ chSend' = chSend
              /\ messages # <<>>
                 => ( /\ Len(sent') = Len(sent) + 1
                      /\ SubSeq(sent', 1, Len(sent)) = sent
                      /\ sent'[Len(sent')].msgs = messages )
              /\ messages = <<>> => sent' = sent ) ]_vars
  /\ [][ bPc = "done"
         => ( /\ bPc' = "done"
              /\ sent' = sent
              /\ messages' = messages
              /\ dropped' = dropped
              /\ zeroRecv' = zeroRecv
              /\ Len(chSend') >= Len(chSend)
              /\ SubSeq(chSend', 1, Len(chSend)) = chSend ) ]_vars

\* sendResults has returned after a last call with fewer than BatchSize
\* results, and a result that arrived later stays on chSend.
FinalFlushWitness ==
  /\ bPc = "done"
  /\ sent # <<>>
  /\ sent[Len(sent)].cause = "cancel"
  /\ Len(sent[Len(sent)].msgs) \in 1..(BatchSize - 1)
  /\ chSend # <<>>

\* C21: every entry of every batch handed to kafka.Send, and every entry of
\* the buffer, is a result that a worker enqueued on chSend; sendResults
\* never takes the zero value of the closed chSend for a result.
NoZeroResult ==
  /\ \A r \in FlushedResults : r.id # 0 /\ r \in Range(produced)
  /\ \A r \in Range(messages) : r.id # 0 /\ r \in Range(produced)

\* The runs of the job whose handlePubkeyUploadAWS has returned; a run whose
\* decodeJob failed returns at line 30 and never calls it.
ReturnedRuns ==
  {r \in 1..MaxJobs : jRuns[r].decoded /\ jRuns[r].pc \in {"finish", "done"}}

\* The runs of the job that have returned from HandlePubkeyUploadAWS.
DoneRuns == {r \in 1..MaxJobs : jRuns[r].pc = "done"}

\* C22: a run of the job that makes its presence check when the (pubkey,
\* source, region) has a resource record calls neither ImportPubkey nor
\* UnscopedCreateResource and, unless the check itself fails, returns
\* success, so that a run made after a successful one does nothing more; a
\* run that finds no record and returns success has created one; a record is
\* created only by a run whose ImportPubkey call had succeeded, and never by
\* a run that returns an error; finishJob is called once, with the
\* reservation and the error of the run, in every run whose job decoded, and
\* in no other.
PubkeyUploadIdempotent ==
  /\ [](\A r \in 1..MaxJobs :
          LET run == jRuns[r] IN
          /\ run.existed
             => ( /\ r \in ReturnedRuns
                  /\ ~run.imported
                  /\ ~run.created
                  /\ run.err \in {"none", "check resource"} )
          /\ run.created
             => run.importOk /\ r \in ReturnedRuns /\ run.err = "none"
          /\ run.importOk => run.imported
          /\ ( r \in ReturnedRuns /\ run.decoded /\ run.err = "none" )
             => ( /\ ResourceKey(run.args) \in Range(jResources)
                  /\ run.existed \/ run.created )
          /\ ( r \in ReturnedRuns /\ run.err # "none" ) => ~run.created
          /\ ~run.decoded => ~run.imported /\ ~run.created
          /\ Cardinality({i \in 1..Len(jFinished) : jFinished[i].run = r})
             = IF r \in DoneRuns /\ run.decoded THEN 1 ELSE 0
          /\ \A i \in 1..Len(jFinished) :
               jFinished[i].run = r
               => ( /\ jFinished[i].reservation = run.args.reservation
                    /\ jFinished[i].err = run.err )
          /\ Cardinality({i \in 1..Len(jImports) : jImports[i].run = r})
             = IF run.imported THEN 1 ELSE 0)
  /\ [](Len(jResources) = Cardinality({r \in 1..MaxJobs : jRuns[r].created}))
  /\ [][ jResources' # jResources
         => \E r \in 1..MaxJobs :
              /\ jRuns[r].pc = "create"
              /\ jRuns[r].importOk
              /\ \E i \in 1..Len(jImports) :
                   /\ jImports[i].run = r
                   /\ jImports[i].ok
                   /\ jImports[i].key = ResourceKey(jRuns[r].args)
              /\ jResources' = Append(jResources, ResourceKey(jRuns[r].args))
              /\ jRuns'[r].err = "none" ]_vars
  /\ [][ \A r \in 1..MaxJobs :
           /\ ( jRuns[r].pc = "check" /\ jRuns'[r].pc # "check" )
              => ( /\ jRuns'[r].existed
                      <=> ResourceKey(jRuns[r].args) \in Range(jResources)
                   /\ jImports' = jImports
                   /\ jResources' = jResources )
           /\ jRuns'[r].pc \in {"import", "create"} => ~jRuns'[r].existed
           /\ jRuns[r].pc \in {"finish", "done"}
              => ( /\ jRuns'[r].err = jRuns[r].err
                   /\ jRuns'[r].created = jRuns[r].created
                   /\ jRuns'[r].imported = jRuns[r].imported ) ]_vars

\* The job ran twice for the same pubkey, source and region, the second run
\* making its check after the first had stored its record, and returned
\* success both times: there is one ImportPubkey call and one record.  The
\* second run called finishJob before the first.
PubkeyUploadIdempotentWitness ==
  /\ DoneRuns = {1, 2}
  /\ jRuns[1].err = "none" /\ jRuns[1].created
  /\ jRuns[2].err = "none" /\ jRuns[2].existed
  /\ ResourceKey(jRuns[1].args) = ResourceKey(jRuns[2].args)
  /\ Len(jImports) = 1
  /\ jResources = <<ResourceKey(jRuns[1].args)>>
  /\ Len(jFinished) = 2
  /\ jFinished[1].run = 2

====
